---------------------------- MODULE Spec2Model ----------------------------
(***************************************************************************)
(* A model of the HHL algorithm class of qiskit_aqua                       *)
(* (src/qiskit_aqua/algorithms/single_sample/hhl/hhl.py): one HHL instance *)
(* with its fields, the three public operations init_params, init_args and *)
(* run, the circuit assembly of _construct_circuit and the post-processing *)
(* of _exact_simulation.                                                   *)
(*                                                                         *)
(* Numbers.  Amplitudes are complex numbers (re + i*im) * Eps^scale with   *)
(* integer re, im, Eps = 1e-10 and scale in {0, 1}: scale 0 holds          *)
(* amplitudes of ordinary size (1.0, -1.0, i, ...), scale 1 holds          *)
(* amplitudes of the size of numerical noise (1e-10, 5e-9, 1e-8, ...).     *)
(* A sum of squared magnitudes is the pair <<hi, lo>> = hi + lo * Eps^2;   *)
(* lo stays far below 1e20, so pairs compare lexicographically.  The       *)
(* arithmetic is exact; the rounding of IEEE doubles (relative error about *)
(* 1e-16) is far below every tolerance that appears here.                  *)
(***************************************************************************)
EXTENDS Integers, Sequences, FiniteSets, TLC

VARIABLES
    backend,            \* self._backend (field of the QuantumAlgorithm base)
    matrix,             \* self._matrix
    eigs,               \* self._eigs
    init_state,         \* self._init_state
    reciprocal,         \* self._reciprocal
    circuit,            \* self._circuit
    io_register,        \* self._io_register
    eigenvalue_register,\* self._eigenvalue_register
    ancilla_register,   \* self._ancilla_register
    success_bit,        \* self._success_bit
    num_q,              \* self._num_q
    num_a,              \* self._num_a
    mode,               \* self._mode
    ret,                \* self._ret
    runs,               \* number of run() calls made so far (names fresh objects)
    outcome,            \* how the last call ended and what it returned
    trace,              \* the calls the last operation made, in order
    frame               \* locals of the last _exact_simulation, and what it printed

vars == <<backend, matrix, eigs, init_state, reciprocal, circuit, io_register,
          eigenvalue_register, ancilla_register, success_bit, num_q, num_a,
          mode, ret, runs, outcome, trace, frame>>

fields == <<backend, matrix, eigs, init_state, reciprocal, circuit, io_register,
            eigenvalue_register, ancilla_register, success_bit, num_q, num_a,
            mode, ret>>

-----------------------------------------------------------------------------
(* Bounds of the model *)

\* The largest total number of qubits of an assembled circuit.
MaxN == 3

\* The number of run() calls followed on one instance.
MaxRuns == 2

\* The largest number of non-zero amplitudes of a simulated state vector.
MaxNonzero == 2

-----------------------------------------------------------------------------
(* Python values *)

\* Python's None is the empty tuple, a value x that is present is <<x>>.
None == <<>>

Some(x) == <<x>>

\* The empty dict {}.
EmptyDict == [k \in {} |-> 0]

RECURSIVE Pow2(_)
Pow2(n) == IF n <= 0 THEN 1 ELSE 2 * Pow2(n - 1)

RECURSIVE SumOver(_, _)
\* The sum of the pairs f[i], i in S.
SumOver(S, f) ==
    IF S = {} THEN <<0, 0>>
    ELSE LET i == CHOOSE j \in S : TRUE
             r == SumOver(S \ {i}, f)
         IN  <<f[i][1] + r[1], f[i][2] + r[2]>>

-----------------------------------------------------------------------------
(* Amplitudes *)

\* np.isclose's default absolute tolerance, 1e-8, in units of Eps = 1e-10.
Atol == 100

Amp(re, im, scale) == [re |-> re, im |-> im, scale |-> scale]

ZeroAmp == Amp(0, 0, 0)

\* abs(a) ** 2 as a pair <<hi, lo>> = hi + lo * Eps^2.
AbsSq(a) ==
    LET m == a.re * a.re + a.im * a.im
    IN  IF a.scale = 0 THEN <<m, 0>> ELSE <<0, m>>

\* s <= t for pairs <<hi, lo>>.
PairLeq(s, t) == s[1] < t[1] \/ (s[1] = t[1] /\ s[2] <= t[2])

\* np.isclose(a, 0, 1e-10): the third positional argument is rtol, so the test
\* is abs(a - 0) <= atol + rtol * abs(0) with the default atol = 1e-8.
isclose(a) == PairLeq(AbsSq(a), <<0, Atol * Atol>>)

RECURSIVE binary_repr(_, _)
\* np.binary_repr(idx, width) for idx >= 0: the binary digits (the characters
\* of the string), most significant first, padded with zeros on the left to
\* the width.
binary_repr(idx, width) ==
    IF idx < 2 /\ width <= 1 THEN <<idx>>
    ELSE Append(binary_repr(idx \div 2, width - 1), idx % 2)

\* The Python slice s[-k:] of a sequence of characters.
Trailing(s, k) ==
    IF k = 0 \/ k >= Len(s) THEN s ELSE SubSeq(s, Len(s) - k + 1, Len(s))

-----------------------------------------------------------------------------
(* Registers, fragments and circuits *)

\* A register: its name, its number of (qu)bits, and the run() call that
\* allocated it (two registers allocated by different calls are different
\* objects even when name and size agree).
Reg(name, size, r) == [name |-> name, size |-> size, run |-> r]

\* What a collaborator's construct_circuit / construct_inverse returns, and the
\* measurement: the kind of the block, the collaborator instance that built it,
\* the register it acts on, the registers it brings into the circuit.
Fragment(kind, inst, target, regs, cregs) ==
    [kind |-> kind, inst |-> inst, target |-> target, regs |-> regs, cregs |-> cregs]

\* QuantumCircuit(q)
QuantumCircuit(q) == [qregs |-> <<q>>, cregs |-> <<>>, ops |-> <<>>]

RECURSIVE Merge(_, _)
\* The registers of s followed by those of t that s does not hold.
Merge(s, t) ==
    IF t = <<>> THEN s
    ELSE IF \E k \in 1..Len(s) : s[k] = Head(t) THEN Merge(s, Tail(t))
         ELSE Merge(Append(s, Head(t)), Tail(t))

\* qc += fragment (and, for the measurement, qc.add(c); qc.measure(s, c))
Compose(qc, frag) ==
    [qregs |-> Merge(qc.qregs, frag.regs),
     cregs |-> Merge(qc.cregs, frag.cregs),
     ops   |-> Append(qc.ops, frag)]

RECURSIVE SeqSum(_)
SeqSum(s) == IF s = <<>> THEN 0 ELSE Head(s).size + SeqSum(Tail(s))

-----------------------------------------------------------------------------
(* State vectors *)

\* The amplitudes a simulated state vector is built from: 1, i, and the
\* noise-sized 1e-10, 5e-9, 1e-8 and 1.01e-8.
NoisyAmps ==
    {Amp(1, 0, 0), Amp(0, 1, 0),
     Amp(1, 0, 1), Amp(50, 0, 1), Amp(100, 0, 1), Amp(101, 0, 1)}

\* The amplitude 1.0 alone: computational basis states.
BasisAmps == {Amp(1, 0, 0)}

\* The sets of at most k (and at least one) indices of a state vector of
\* length 2^num: where its non-zero amplitudes sit.
Supports(num, k) ==
    {T \in SUBSET (0..(Pow2(num) - 1)) : Cardinality(T) \in 1..k}

\* The state vector of length 2^num with the amplitudes f on S and zero
\* elsewhere; a state vector is a function from its indices 0 .. 2^num - 1.
StateVector(num, S, f) ==
    [i \in 0..(Pow2(num) - 1) |-> IF i \in S THEN f[i] ELSE ZeroAmp]

-----------------------------------------------------------------------------
(* _exact_simulation: the post-processing of the state vector *)

\* A success test that leaves out the first index of the success branch.
CorrectMut(idx, num) == idx > Pow2(num - 1)

\* correct = idxs >= 2**(num-1)
Correct(idx, num) == idx >= Pow2(num - 1)

\* idxs = np.where(np.logical_not(np.isclose(sv, 0, 1e-10)))[0]
Kept(sv) == {i \in DOMAIN sv : ~isclose(sv[i])}

RECURSIVE Str(_)
\* The string of a sequence of binary digits.
Str(digits) ==
    IF digits = <<>> THEN ""
    ELSE (IF Head(digits) = 1 THEN "1" ELSE "0") \o Str(Tail(digits))

\* The key of index idx: np.binary_repr(idx, width=num)[-self._num_q:]
Key(idx, num, nq) == Str(Trailing(binary_repr(idx, num), nq))

RECURSIVE Ascending(_)
\* The elements of a set of integers in ascending order.
Ascending(S) ==
    IF S = {} THEN <<>>
    ELSE LET m == CHOOSE i \in S : \A j \in S : i <= j
         IN  <<m>> \o Ascending(S \ {m})

RECURSIVE DictOf(_, _, _)
\* {key(idx): val for idx, val in zip(idxs, vals)}: a later pair with the same
\* key replaces the earlier one.
DictOf(idxs, keyOf, valOf) ==
    IF idxs = <<>> THEN EmptyDict
    ELSE LET i == idxs[Len(idxs)]
         IN  (keyOf[i] :> valOf[i]) @@ DictOf(SubSeq(idxs, 1, Len(idxs) - 1), keyOf, valOf)

\* The locals of _exact_simulation at its end, for the circuit qc, self._num_q
\* and the state vector sv the backend returned.
\*   num  : the sum of the sizes of the circuit's quantum registers
\*   kept : idxs as line 207 leaves it
\*   p    : np.sum(np.abs(vals[correct])**2)
\*   idxs : idxs[correct]
\*   d    : the dict that is printed; its value for an index is val.real of
\*          vals/np.linalg.norm(vals), kept as [re, scale, normsq] =
\*          re * Eps^scale / sqrt(normsq)
exact_simulation(qc, nq, sv) ==
    LET num     == SeqSum(qc.qregs)
        kept    == Kept(sv)
        idxs    == {i \in kept : Correct(i, num)}
        sq      == [i \in idxs |-> AbsSq(sv[i])]
        p       == SumOver(idxs, sq)
        normsq  == SumOver(idxs, sq)
        keyOf   == [i \in idxs |-> Key(i, num, nq)]
        valOf   == [i \in idxs |-> [re |-> sv[i].re, scale |-> sv[i].scale,
                                     normsq |-> normsq]]
    IN  [sv |-> sv, num |-> num, kept |-> kept, p |-> p, idxs |-> idxs,
         d |-> DictOf(Ascending(idxs), keyOf, valOf)]

-----------------------------------------------------------------------------
(* The HHL instance *)

\* None where the field holds a string.
NoneStr == "None"

\* PROP_MODE's enum, and the absent key (params.get gives None).
Modes == {"circuit", "exact_simulation", "state_tomography", NoneStr}

\* What self._backend can hold: nothing, the state-vector simulator, or a
\* backend that yields counts only.
Backends == {NoneStr, "local_statevector_simulator", "local_qasm_simulator"}

\* The instances the collaborator factories can hand out.
EigsInstances == {"eigs_1"}

InitStateInstances == {"init_state_1"}

ReciprocalInstances == {"reciprocal_1"}

\* The register sizes (num_q, num_a) that fit the bound: an IO register of at
\* least one qubit, an eigenvalue register, and the one success qubit.
Sizes == {s \in (1..MaxN) \X (0..MaxN) : s[1] + s[2] + 1 <= MaxN}

\* How a call ended: the operation, the mode it was called with (for run, the
\* mode of the instance), whether it returned or raised, the error raised and
\* the value returned.
Returned(op, m, value) ==
    [op |-> op, request |-> m, kind |-> "returned", error |-> NoneStr, value |-> value]

Raised(op, m, error) ==
    [op |-> op, request |-> m, kind |-> "raised", error |-> error, value |-> None]

\* HHL.__init__
Init ==
    /\ backend \in Backends
    /\ matrix = NoneStr
    /\ eigs = NoneStr
    /\ init_state = NoneStr
    /\ reciprocal = NoneStr
    /\ circuit = None
    /\ io_register = None
    /\ eigenvalue_register = None
    /\ ancilla_register = None
    /\ success_bit = None
    /\ num_q = 0
    /\ num_a = 0
    /\ mode = NoneStr
    /\ ret = EmptyDict
    /\ runs = 0
    /\ outcome = Returned("__init__", NoneStr, None)
    /\ trace = <<>>
    /\ frame = None

\* The body of init_args: the eight assignments.
SetArgs(mat, e, i, rc, m, nq, na) ==
    /\ matrix' = mat
    /\ eigs' = e
    /\ init_state' = i
    /\ reciprocal' = rc
    /\ num_q' = nq
    /\ num_a' = na
    /\ mode' = m
    /\ UNCHANGED <<backend, circuit, io_register, eigenvalue_register,
                   ancilla_register, success_bit, ret, runs>>

\* HHL.init_args(matrix, invec, eigs, init_state, reciprocal, mode, num_q, num_a)
init_args(mat, e, i, rc, m, nq, na) ==
    /\ SetArgs(mat, e, i, rc, m, nq, na)
    /\ outcome' = Returned("init_args", m, None)
    /\ trace' = <<"init_args">>
    /\ frame' = None

\* The guard of init_params on the mode (lines 119-123): the error it raises,
\* or NoneStr when it lets the configuration through.  AlgorithmError is not
\* imported by the module, so the raise statement of line 121 raises NameError.
ModeGuard(m, b) ==
    IF m = "exact_simulation"
    THEN (IF b # "local_statevector_simulator" THEN "NameError" ELSE NoneStr)
    ELSE IF m = "state_tomography" THEN "NotImplementedError" ELSE NoneStr

\* HHL.init_params(params, matrix): m is the mode of the params, mat the matrix,
\* e, i, rc the instances the factories return, nq and na the sizes that
\* eigs.get_register_sizes() returns.
init_params(m, mat, e, i, rc, nq, na) ==
    IF mat = NoneStr
    THEN /\ outcome' = Raised("init_params", m, "NameError")
         /\ trace' = <<>>
         /\ frame' = None
         /\ UNCHANGED <<fields, runs>>
    ELSE IF ModeGuard(m, backend) # NoneStr
    THEN /\ outcome' = Raised("init_params", m, ModeGuard(m, backend))
         /\ trace' = <<>>
         /\ frame' = None
         /\ UNCHANGED <<fields, runs>>
    ELSE /\ SetArgs(mat, e, i, rc, m, nq, na)
         /\ outcome' = Returned("init_params", m, None)
         /\ trace' = <<"get_eigs_instance", "eigs.init_params",
                       "eigs.get_register_sizes", "get_initial_state_instance",
                       "init_state.init_params", "get_reciprocal_instance",
                       "reciprocal.init_params", "init_args">>
         /\ frame' = None

-----------------------------------------------------------------------------
(* _construct_circuit *)

\* A measurement appended in circuit mode only.
MeasuredMut(m) == m = "circuit"

\* The condition of line 188 under which the measurement is appended.
Measured(m) == m # "exact_simulation"

\* An assembly that un-computes the estimation before the reciprocal rotation.
construct_circuitMut(m, nq, na, e, i, rc, r, sb) ==
    LET q   == Reg("io", nq, r)
        a   == Reg("eigs_output", na, r)
        s   == Reg("anc", 1, r)
        c   == Reg("c", 1, r)
        qc1 == Compose(QuantumCircuit(q), Fragment("initial_state", i, q, <<q>>, <<>>))
        qc2 == Compose(qc1, Fragment("eigs", e, q, <<q, a>>, <<>>))
        qc3 == Compose(qc2, Fragment("eigs_inverse", e, q, <<q, a>>, <<>>))
        qc4 == Compose(qc3, Fragment("reciprocal", rc, a, <<a, s>>, <<>>))
        qc5 == IF Measured(m)
               THEN Compose(qc4, Fragment("measure", NoneStr, s, <<s>>, <<c>>))
               ELSE qc4
    IN  [circuit |-> qc5,
         io_register |-> Some(q),
         eigenvalue_register |-> Some(a),
         ancilla_register |-> Some(s),
         success_bit |-> IF Measured(m) THEN Some(c) ELSE sb,
         trace |-> <<"QuantumRegister", "QuantumCircuit",
                     "init_state.construct_circuit", "eigs.construct_circuit",
                     "eigs.construct_inverse", "reciprocal.construct_circuit">>
                   \o (IF Measured(m) THEN <<"ClassicalRegister", "measure">> ELSE <<>>)
                   \o <<"assembled">>]

\* HHL._construct_circuit, called by the r-th run(): the circuit and the four
\* handles it leaves in the fields, and the calls it makes.  sb is the value of
\* self._success_bit before the call: line 192 assigns it only when the
\* measurement is appended.
construct_circuit(m, nq, na, e, i, rc, r, sb) ==
    LET q   == Reg("io", nq, r)
        qc0 == QuantumCircuit(q)
        \* InitialState
        qc1 == Compose(qc0, Fragment("initial_state", i, q, <<q>>, <<>>))
        \* EigenvalueEstimation, and the register it leaves in _output_register
        a   == Reg("eigs_output", na, r)
        qc2 == Compose(qc1, Fragment("eigs", e, q, <<q, a>>, <<>>))
        \* Reciprocal rotation, and the qubit it leaves in _anc
        s   == Reg("anc", 1, r)
        qc3 == Compose(qc2, Fragment("reciprocal", rc, a, <<a, s>>, <<>>))
        \* Inverse EigenvalueEstimation
        qc4 == Compose(qc3, Fragment("eigs_inverse", e, q, <<q, a>>, <<>>))
        \* Measurement of the ancilla qubit
        c   == Reg("c", 1, r)
        qc5 == IF Measured(m)
               THEN Compose(qc4, Fragment("measure", NoneStr, s, <<s>>, <<c>>))
               ELSE qc4
    IN  [circuit |-> qc5,
         io_register |-> Some(q),
         eigenvalue_register |-> Some(a),
         ancilla_register |-> Some(s),
         success_bit |-> IF Measured(m) THEN Some(c) ELSE sb,
         trace |-> <<"QuantumRegister", "QuantumCircuit",
                     "init_state.construct_circuit", "eigs.construct_circuit",
                     "reciprocal.construct_circuit", "eigs.construct_inverse">>
                   \o (IF Measured(m) THEN <<"ClassicalRegister", "measure">> ELSE <<>>)
                   \o <<"assembled">>]

-----------------------------------------------------------------------------
(* run *)

\* The "regs" entry of the result of a circuit-mode run (lines 228-233).
Regs(io, ev, anc, sb) ==
    ("io_register" :> io) @@ ("eigenvalue_register" :> ev) @@
    ("ancilla_register" :> anc) @@ ("self._success_bit" :> sb)

\* The assignments of lines 227 and 234 to the dict self._ret.
CircuitResult(old, cc) ==
    ("circuit" :> Some(cc.circuit)) @@
    ("regs" :> Regs(cc.io_register, cc.eigenvalue_register,
                    cc.ancilla_register, cc.success_bit)) @@ old

\* A dispatch that executes the circuit in circuit mode too.
DispatchMut(m, b) ==
    IF m = "circuit" \/ m = "exact_simulation"
    THEN (IF b = "local_statevector_simulator"
          THEN <<"_exact_simulation", "execute", "get_statevector", "extract", "print">>
          ELSE <<"_exact_simulation", "execute", "get_statevector">>)
    ELSE IF m = "state_tomography" THEN <<"_state_tomography">>
    ELSE <<>>

\* The calls run() makes after the assembly, by mode and backend.
Dispatch(m, b) ==
    IF m = "circuit" THEN <<>>
    ELSE IF m = "exact_simulation"
    THEN (IF b = "local_statevector_simulator"
          THEN <<"_exact_simulation", "execute", "get_statevector", "extract", "print">>
          ELSE <<"_exact_simulation", "execute", "get_statevector">>)
    ELSE IF m = "state_tomography" THEN <<"_state_tomography">>
    ELSE <<>>

\* HHL.run() on state vectors of at most k non-zero amplitudes from amps.
\* Before any configuration self._init_state is None and line 174 raises
\* AttributeError; on a backend without a state vector the result of execute
\* has none to give and get_statevector raises.
run(k, amps) ==
    /\ runs' = runs + 1
    /\ UNCHANGED <<backend, matrix, eigs, init_state, reciprocal, num_q, num_a, mode>>
    /\ IF init_state = NoneStr
       THEN /\ outcome' = Raised("run", mode, "AttributeError")
            /\ trace' = <<"QuantumRegister", "QuantumCircuit">>
            /\ frame' = None
            /\ UNCHANGED <<circuit, io_register, eigenvalue_register,
                           ancilla_register, success_bit, ret>>
       ELSE LET cc == construct_circuit(mode, num_q, num_a, eigs, init_state,
                                        reciprocal, runs + 1, success_bit)
            IN  /\ circuit' = Some(cc.circuit)
                /\ io_register' = cc.io_register
                /\ eigenvalue_register' = cc.eigenvalue_register
                /\ ancilla_register' = cc.ancilla_register
                /\ success_bit' = cc.success_bit
                /\ trace' = cc.trace \o Dispatch(mode, backend)
                /\ ret' = IF mode = "circuit" THEN CircuitResult(ret, cc) ELSE ret
                /\ IF mode = "exact_simulation"
                   THEN IF backend = "local_statevector_simulator"
                        THEN \E S \in Supports(SeqSum(cc.circuit.qregs), k) :
                             \E f \in [S -> amps] :
                                /\ frame' = Some(exact_simulation(cc.circuit, num_q,
                                              StateVector(SeqSum(cc.circuit.qregs), S, f)))
                                /\ outcome' = Returned("run", mode, Some(ret'))
                        ELSE /\ frame' = None
                             /\ outcome' = Raised("run", mode, "BackendError")
                   ELSE /\ frame' = None
                        /\ outcome' = Returned("run", mode, Some(ret'))

-----------------------------------------------------------------------------
(* The specifications *)

InitParams ==
    \E m \in Modes, mat \in {NoneStr, "A"}, e \in EigsInstances,
       i \in InitStateInstances, rc \in ReciprocalInstances, s \in Sizes :
        init_params(m, mat, e, i, rc, s[1], s[2])

InitArgs ==
    \E m \in Modes, e \in EigsInstances, i \in InitStateInstances,
       rc \in ReciprocalInstances, s \in Sizes :
        init_args("A", e, i, rc, m, s[1], s[2])

\* run() with the backend returning a computational basis state.
Run == runs < MaxRuns /\ run(1, BasisAmps)

\* The one run() of an instance, with the backend returning any state vector
\* of the bounded set.
RunOnce == runs = 0 /\ run(MaxNonzero, NoisyAmps)

Next == InitParams \/ InitArgs \/ Run

\* Any sequence of configurations and runs of one instance.
Spec == Init /\ [][Next]_vars

ExtractNext == (runs = 0 /\ (InitParams \/ InitArgs)) \/ RunOnce

\* Configurations followed by a single run, over the larger set of state vectors.
ExtractSpec == Init /\ [][ExtractNext]_vars

-----------------------------------------------------------------------------
(* Properties *)

\* The last call was run().
RunDone == outcome.op = "run"

\* The number of times the last call made the call ev.
Count(ev) == Cardinality({k \in 1..Len(trace) : trace[k] = ev})

\* The place of the first call ev of the last call.
Pos(ev) == CHOOSE k \in 1..Len(trace) : trace[k] = ev /\ \A j \in 1..(k - 1) : trace[j] # ev

\* The last call was a run() whose _construct_circuit completed.
Assembled == RunDone /\ Count("assembled") = 1

\* The places of the measurements in a circuit.
Measurements(qc) == {k \in 1..Len(qc.ops) : qc.ops[k].kind = "measure"}

\* C1: with mode 'state_tomography', a configuration through init_params
\* fails, and every run() of an instance in that mode ends in a not-supported
\* error; run() never returns a value.
C1_TomographyAlwaysFails ==
    /\ (outcome.op = "init_params" /\ outcome.request = "state_tomography")
          => outcome.kind = "raised"
    /\ (RunDone /\ mode = "state_tomography")
          => (outcome.kind = "raised" /\ outcome.error = "NotImplementedError")

\* C2: a configuration for 'exact_simulation' on a backend other than the
\* state-vector simulator fails before any collaborator is instantiated, and
\* so no run() calls execute on such a backend.
C2_ExactSimulationGuarded ==
    /\ (/\ outcome.op \in {"init_params", "init_args"}
        /\ outcome.request = "exact_simulation"
        /\ backend # "local_statevector_simulator")
          => (outcome.kind = "raised" /\ trace = <<>>)
    /\ (RunDone /\ Count("execute") > 0) => backend = "local_statevector_simulator"

\* C3: the assembled circuit holds a measurement of the success qubit into a
\* 1-bit classical register if and only if the mode is not 'exact_simulation';
\* in 'exact_simulation' it holds no classical register and no measurement.
C3_MeasurementIffNotExact ==
    Assembled =>
        LET qc == circuit[1]
        IN  IF mode # "exact_simulation"
            THEN /\ Cardinality(Measurements(qc)) = 1
                 /\ Len(qc.cregs) = 1
                 /\ qc.cregs[1].size = 1
                 /\ \A k \in Measurements(qc) :
                        /\ Some(qc.ops[k].target) = ancilla_register
                        /\ qc.ops[k].cregs = qc.cregs
            ELSE /\ Measurements(qc) = {}
                 /\ qc.cregs = <<>>

\* C3: a run in 'exact_simulation' mode, after an earlier run that measured,
\* has assembled a circuit without classical register.
C3_Witness ==
    /\ Assembled
    /\ mode = "exact_simulation"
    /\ circuit[1].cregs = <<>>
    /\ success_bit # None

\* C4: the fragments are appended in the order InitialState on the IO register,
\* EigenvalueEstimation on the IO register, ReciprocalRotation on the register
\* the estimation yields, the inverse of the same estimator, and the
\* measurement (when present) last, each once.
C4_FragmentOrder ==
    Assembled =>
        LET ops == circuit[1].ops
        IN  /\ Len(ops) \in {4, 5}
            /\ ops[1].kind = "initial_state"
            /\ ops[1].inst = init_state
            /\ Some(ops[1].target) = io_register
            /\ ops[2].kind = "eigs"
            /\ ops[2].inst = eigs
            /\ Some(ops[2].target) = io_register
            /\ ops[3].kind = "reciprocal"
            /\ ops[3].inst = reciprocal
            /\ Some(ops[3].target) = eigenvalue_register
            /\ \E k \in 1..Len(ops[2].regs) : ops[2].regs[k] = ops[3].target
            /\ ops[4].kind = "eigs_inverse"
            /\ ops[4].inst = ops[2].inst
            /\ Len(ops) = 5 => ops[5].kind = "measure"
            /\ Count("init_state.construct_circuit") = 1
            /\ Count("eigs.construct_circuit") = 1
            /\ Count("reciprocal.construct_circuit") = 1
            /\ Count("eigs.construct_inverse") = 1
            /\ Pos("init_state.construct_circuit") < Pos("eigs.construct_circuit")
            /\ Pos("eigs.construct_circuit") < Pos("reciprocal.construct_circuit")
            /\ Pos("reciprocal.construct_circuit") < Pos("eigs.construct_inverse")
            /\ Count("measure") > 0 => Pos("eigs.construct_inverse") < Pos("measure")

\* C4: a run has assembled the four fragments and the measurement.
C4_Witness == Assembled /\ Len(circuit[1].ops) = 5

\* C5: a run in 'exact_simulation' mode returns the mapping the extractor
\* computed.
C5_ExactRunReturnsMapping ==
    (RunDone /\ mode = "exact_simulation" /\ outcome.kind = "returned")
        => (frame # None /\ outcome.value = Some(frame[1].d))

\* The state vector sv holds the amplitude 1.0 at index i and zero elsewhere.
OneHot(sv, i) == sv[i] = Amp(1, 0, 0) /\ \A j \in DOMAIN sv \ {i} : sv[j] = ZeroAmp

\* The nq low bits of i, most significant first, as a string.
IOBits(i, nq) == Str([k \in 1..nq |-> (i \div Pow2(nq - k)) % 2])

\* The amplitude 1.0 after the division by the norm 1.0.
ValueOne == [re |-> 1, scale |-> 0, normsq |-> <<1, 0>>]

\* C6: for a state vector of length 2^N with the whole mass 1.0 at index i,
\* the extractor computes the mapping {trailing num_q bits of i: 1.0} and
\* p = 1.0 when i >= 2^(N-1), and the empty mapping and p = 0.0 otherwise.
C6_SingleIndexDecoding ==
    frame # None =>
        LET fr == frame[1]
        IN  /\ fr.num = num_q + num_a + 1
            /\ DOMAIN fr.sv = 0..(Pow2(fr.num) - 1)
            /\ \A i \in DOMAIN fr.sv :
                 OneHot(fr.sv, i) =>
                    IF 2 * i >= Pow2(fr.num)
                    THEN fr.d = (IOBits(i, num_q) :> ValueOne) /\ fr.p = <<1, 0>>
                    ELSE fr.d = EmptyDict /\ fr.p = <<0, 0>>

\* C6: N = 3, num_q = 2, the whole mass at index 6: the extractor has
\* computed {"10": 1.0} and p = 1.0.
C6_Witness ==
    /\ frame # None
    /\ frame[1].num = 3
    /\ num_q = 2
    /\ OneHot(frame[1].sv, 6)
    /\ frame[1].d = ("10" :> ValueOne)
    /\ frame[1].p = <<1, 0>>

\* The sum of the squares of the numerators of the values of the mapping d.
SumSquares(d) ==
    SumOver(DOMAIN d, [k \in DOMAIN d |->
                         IF d[k].scale = 0 THEN <<d[k].re * d[k].re, 0>>
                         ELSE <<0, d[k].re * d[k].re>>])

\* | R / S - 1 | <= 1e-9 for pairs R <= S (componentwise) with S > 0: the
\* difference D = S - R satisfies D <= 1e-9 * S.  With components below 1e9,
\* a unit-sized difference never does, and a noise-sized difference does as
\* soon as S holds a unit-sized part.
WithinTolerance(R, S) ==
    /\ S[1] - R[1] = 0
    /\ (S[1] >= 1 \/ S[2] - R[2] <= S[2] \div 1000000000)

\* C7: when the success branch holds non-negligible mass, the squared
\* magnitudes of the amplitudes of the returned mapping sum to 1 within 1e-9.
C7_ReturnedNormalised ==
    (frame # None /\ frame[1].p[1] >= 1)
        => WithinTolerance(SumSquares(frame[1].d), frame[1].p)

\* The entries of the value a circuit-mode run returns, and the calls to execute.
CircuitRunResult ==
    (RunDone /\ mode = "circuit") =>
        /\ outcome.kind = "returned"
        /\ {"circuit", "regs"} \subseteq DOMAIN outcome.value[1]
        /\ outcome.value[1]["circuit"] = circuit
        /\ circuit # None
        /\ \A k \in 1..Len(circuit[1].qregs) : circuit[1].qregs[k].run = runs
        /\ outcome.value[1]["regs"] =
              Regs(io_register, eigenvalue_register, ancilla_register, success_bit)
        /\ io_register = Some(circuit[1].qregs[1])
        /\ success_bit = Some(circuit[1].cregs[1])
        /\ Count("execute") = 0

\* An 'exact_simulation' run calls execute once, after the assembly and before
\* the extraction.
ExecuteOnce ==
    (Assembled /\ mode = "exact_simulation") =>
        /\ Count("execute") = 1
        /\ Pos("assembled") < Pos("execute")
        /\ Count("extract") > 0 => Pos("execute") < Pos("extract")

\* C8 as stated: a circuit-mode run returns the circuit, its register handles
\* and the mode, and does not call execute; an 'exact_simulation' run calls
\* execute exactly once, after the assembly and before the extraction.
C8_Original ==
    /\ CircuitRunResult
    /\ (RunDone /\ mode = "circuit") =>
          /\ "mode" \in DOMAIN outcome.value[1]
          /\ outcome.value[1]["mode"] = mode
    /\ ExecuteOnce

\* C8 as amended: a circuit-mode run returns the circuit and its register
\* handles (the mode is not part of the returned value) and does not call
\* execute; an 'exact_simulation' run calls execute exactly once, after the
\* assembly and before the extraction.
C8_CircuitRunReturnsHandles ==
    /\ CircuitRunResult
    /\ (RunDone /\ mode = "circuit") => DOMAIN outcome.value[1] = {"circuit", "regs"}
    /\ ExecuteOnce

\* C8: a second run, in circuit mode, has returned its circuit and handles.
C8_Witness ==
    /\ RunDone
    /\ mode = "circuit"
    /\ runs = 2
    /\ outcome.kind = "returned"
    /\ outcome.value[1]["circuit"] = circuit
    /\ Len(circuit[1].ops) = 5

\* C9: what a run returns and retains comes from that run alone: the circuit
\* and the handles in the returned value are those the run assembled, and the
\* success bit is retained if and only if the run's mode is not
\* 'exact_simulation' (and then it is the run's own).
C9_NothingCarriedAcrossRuns ==
    (RunDone /\ outcome.kind = "returned") =>
        /\ success_bit # None <=> mode # "exact_simulation"
        /\ success_bit # None => success_bit[1].run = runs
        /\ "circuit" \in DOMAIN outcome.value[1]
              => outcome.value[1]["circuit"] = circuit
        /\ "regs" \in DOMAIN outcome.value[1]
              => outcome.value[1]["regs"]["io_register"] = io_register

\* C10: the extractor keeps an index if and only if the magnitude of its
\* amplitude exceeds 1e-10.
C10_NoiseThreshold ==
    frame # None =>
        \A i \in DOMAIN frame[1].sv :
            i \in frame[1].kept <=> ~PairLeq(AbsSq(frame[1].sv[i]), <<0, 1>>)

=============================================================================
